---- MODULE Spec2Model ----
(***************************************************************************)
(* Model of btzen: the notification multiplexer and bus connect of         *)
(* btzen/bus.py, the connection manager of btzen/cm.py and the credit     *)
(* based serial transport of btzen/serial.py.                             *)
(*                                                                         *)
(* Four specifications share the module: SpecNotif (the Notifications     *)
(* API called freely), SpecBus (concurrent Bus.connect calls), SpecCM     *)
(* (the connection manager and its per-address tasks) and SpecSerial      *)
(* (one reader and one writer on a Serial object).                        *)
(***************************************************************************)
EXTENDS Integers, Sequences, FiniteSets, TLC

VARIABLES
    data,        \* Notifications._data: (path, iface) -> property monitor
    ncall,       \* SpecNotif: the last Notifications call and what it did
    lockTab,     \* Bus._lock: address -> connection lock (weak values)
    locks,       \* the asyncio.Lock objects that are alive
    call,        \* SpecBus: one record per Bus.connect call
    srProp,      \* the device property ServicesResolved, per object path
    devices,     \* ConnectionManager._devices
    connected,   \* ConnectionManager._connected: address -> Event object
    events,      \* the asyncio.Event objects: is the flag set
    process,     \* ConnectionManager._process
    handle,      \* ConnectionManager._handle
    mgr,         \* the coroutine of ConnectionManager.__await__
    task,        \* the per-address _reconnect tasks
    enab,        \* the dev.enable() calls in flight, per logical device
    client,      \* a caller of ConnectionManager.connected
    hist,        \* SpecCM: what the enable attempts and the signals did
    ser,         \* the Serial object
    rd,          \* the Serial.read call
    wr,          \* the Serial.write call
    peer         \* the remote end of the serial link

nvars == <<data, ncall>>
bvars == <<lockTab, locks, call, srProp>>
cvars == <<devices, connected, events, process, handle, mgr, task, enab, client, hist>>
svars == <<ser, rd, wr, peer>>
vars == <<data, ncall, lockTab, locks, call, srProp, devices, connected, events,
          process, handle, mgr, task, enab, client, hist, ser, rd, wr, peer>>

None == "None"
NoLock == None   \* no lock object
NoMac == <<>>    \* no address
NoKey == <<>>    \* no channel key

(***************************************************************************)
(* Addresses and object paths.  A MAC address is a sequence of characters; *)
(* _mac replaces ':' by '_' and upper-cases, _device_path prefixes it.     *)
(***************************************************************************)
Macs == { <<"a", ":", "1">>, <<"b", ":", "2">> }

Upper(ch) ==
    CASE ch = "a" -> "A"
      [] ch = "b" -> "B"
      [] OTHER -> ch

RECURSIVE MacStr(_)
MacStr(mac) ==
    IF mac = <<>> THEN <<>>
    ELSE <<Upper(IF Head(mac) = ":" THEN "_" ELSE Head(mac))>> \o MacStr(Tail(mac))

DevicePath(mac) == <<"/org/bluez/hci0/dev_">> \o MacStr(mac)

INTERFACE_DEVICE == "org.bluez.Device1"
INTERFACE_GATT_CHR == "org.bluez.GattCharacteristic1"

Paths == Macs \cup { DevicePath(m) : m \in Macs }
DevPaths == { DevicePath(m) : m \in Macs }
Ifaces == { INTERFACE_DEVICE, INTERFACE_GATT_CHR }
Names == { "ServicesResolved", "Value" }

\* bounds of the model
MaxQueue == 1
MaxCalls == 4

(***************************************************************************)
(* The property monitor of the native binding (PropertyNotification):      *)
(* is_registered, register, get, size, stop.                               *)
(***************************************************************************)
NoQueues == [n \in Names |-> <<>>]

MonNew == [registered |-> {}, queue |-> NoQueues, stopped |-> FALSE]

MonIsRegistered(m, name) == name \in m.registered

MonRegister(m, name) ==
    [m EXCEPT !.registered = @ \cup {name}, !.queue[name] = <<>>]

MonStop(m) == [registered |-> {}, queue |-> NoQueues, stopped |-> TRUE]

MonSize(m, name) == Len(m.queue[name])

MonPut(m, name, v) ==
    IF MonIsRegistered(m, name) /\ ~m.stopped
    THEN [m EXCEPT !.queue[name] = Append(@, v)]
    ELSE m

MonTake(m, name) == [m EXCEPT !.queue[name] = Tail(@)]

(***************************************************************************)
(* Notifications (bus.py).  Each operator gives the new _data, the native  *)
(* calls the method made and the exception it raised.                      *)
(***************************************************************************)
Keys == Paths \X Ifaces

Put(d, key, m) == [k \in DOMAIN d \cup {key} |-> IF k = key THEN m ELSE d[k]]

NotifStartAlwaysRegisters(d, key, name) ==
    LET present == key \in DOMAIN d
        d1 == IF present THEN d ELSE Put(d, key, MonNew)
    IN  [data |-> [d1 EXCEPT ![key] = MonRegister(@, name)],
         native |-> (IF present THEN <<>> ELSE <<"bt_property_monitor_start">>)
                    \o <<"register">>,
         raised |-> None]

NotifStart(d, key, name) ==
    LET present == key \in DOMAIN d
        d1 == IF present THEN d ELSE Put(d, key, MonNew)
        reg == MonIsRegistered(d1[key], name)
    IN  [data |-> IF reg THEN d1 ELSE [d1 EXCEPT ![key] = MonRegister(@, name)],
         native |-> (IF present THEN <<>> ELSE <<"bt_property_monitor_start">>)
                    \o (IF reg THEN <<>> ELSE <<"register">>),
         raised |-> None]

NotifStopEverything(d, key) ==
    IF key \notin DOMAIN d
    THEN [data |-> d, native |-> <<>>, raised |-> "KeyError"]
    ELSE [data |-> [k \in DOMAIN d |-> MonStop(d[k])],
          native |-> <<"stop">>,
          raised |-> None]

NotifStop(d, key) ==
    IF key \notin DOMAIN d
    THEN [data |-> d, native |-> <<>>, raised |-> "KeyError"]
    ELSE [data |-> [d EXCEPT ![key] = MonStop(@)],
          native |-> <<"stop">>,
          raised |-> None]

\* Notifications.get: the value it returns once one is queued
NotifGetReady(d, key, name) == key \in DOMAIN d /\ MonSize(d[key], name) > 0
NotifGetValue(d, key, name) == Head(d[key].queue[name])
NotifGetData(d, key, name) == [d EXCEPT ![key] = MonTake(@, name)]

NotifSize(d, key, name) == MonSize(d[key], name)

\* a property change signal arriving from the bus
Deliver(d, key, name, v) ==
    IF key \in DOMAIN d THEN [d EXCEPT ![key] = MonPut(@, name, v)] ELSE d

Registered(d, key) == IF key \in DOMAIN d THEN d[key].registered ELSE {}

(***************************************************************************)
(* SpecNotif: start, stop, get and signal delivery in any order.           *)
(***************************************************************************)
\* the channels of one device: its properties and one of its characteristics
NKeys == { DevicePath(<<"a", ":", "1">>) } \X Ifaces

Count(s, x) == Cardinality({i \in 1..Len(s) : s[i] = x})

\* history: a call on key has left every other channel of d as it was in e
OthersSame(d, e, key) ==
    /\ DOMAIN d \ {key} = DOMAIN e \ {key}
    /\ \A k \in DOMAIN d \ {key} : d[k] = e[k]

NoCall ==
    [n |-> 0, op |-> None, key |-> NoKey, name |-> None, pre |-> {},
     present |-> FALSE, same |-> TRUE, others |-> TRUE, native |-> <<>>, raised |-> None,
     monitors |-> [k \in NKeys |-> 0], starts |-> [k \in NKeys |-> [n \in Names |-> 0]],
     registers |-> [k \in NKeys |-> [n \in Names |-> 0]],
     stops |-> [k \in NKeys |-> 0]]

NStart(key, name) ==
    /\ ncall.n < MaxCalls
    /\ LET r == NotifStart(data, key, name)
       IN  /\ data' = r.data
           /\ ncall' = [ncall EXCEPT
                  !.n = @ + 1, !.op = "start", !.key = key, !.name = name,
                  !.pre = Registered(data, key), !.present = key \in DOMAIN data,
                  !.same = (r.data = data), !.others = OthersSame(data, r.data, key),
                  !.native = r.native, !.raised = r.raised,
                  !.monitors[key] = @ + Count(r.native, "bt_property_monitor_start"),
                  !.starts[key][name] = @ + 1,
                  !.registers[key][name] = @ + Count(r.native, "register")]
    /\ UNCHANGED <<bvars, cvars, svars>>

NStop(key) ==
    /\ ncall.n < MaxCalls
    /\ LET r == NotifStop(data, key)
       IN  /\ data' = r.data
           /\ ncall' = [ncall EXCEPT
                  !.n = @ + 1, !.op = "stop", !.key = key, !.name = None,
                  !.pre = Registered(data, key), !.present = key \in DOMAIN data,
                  !.same = (r.data = data), !.others = OthersSame(data, r.data, key),
                  !.native = r.native, !.raised = r.raised,
                  !.stops[key] = @ + 1]
    /\ UNCHANGED <<bvars, cvars, svars>>

NDeliver(key, name, v) ==
    /\ key \in DOMAIN data
    /\ MonIsRegistered(data[key], name)
    /\ ~data[key].stopped
    /\ MonSize(data[key], name) < MaxQueue
    /\ data' = Deliver(data, key, name, v)
    /\ UNCHANGED <<ncall, bvars, cvars, svars>>

NGet(key, name) ==
    /\ NotifGetReady(data, key, name)
    /\ data' = NotifGetData(data, key, name)
    /\ UNCHANGED <<ncall, bvars, cvars, svars>>

InitN == data = <<>> /\ ncall = NoCall
NextNotif ==
    \/ \E key \in NKeys, name \in Names : NStart(key, name)
    \/ \E key \in NKeys : NStop(key)
    \/ \E key \in NKeys, name \in Names, v \in BOOLEAN : NDeliver(key, name, v)
    \/ \E key \in NKeys, name \in Names : NGet(key, name)

(***************************************************************************)
(* Bus.connect (bus.py).  The lock table is a WeakValueDictionary: an     *)
(* entry lives as long as some connect call still holds the lock in its   *)
(* local variable.  asyncio.Lock hands the lock over in FIFO order.       *)
(***************************************************************************)
Calls == { "c1", "c2", "c3" }

SRKey(path) == <<path, INTERFACE_DEVICE>>

\* a connect call: where it is, its address and lock, and for the history
\* how its connect request failed (fail), whether _connect returned (past)
\* and, while it waits for the resolution, the native calls
\* _connect_and_resolve made after _connect, in their order
IdleCall ==
    [pc |-> "idle", mac |-> NoMac, lock |-> NoLock, fail |-> None, past |-> FALSE,
     steps |-> <<>>]

\* the outcomes of the connect request: done, or failed with an error of the
\* already connected class or with another error
ConnectResults == { "ok", "AlreadyConnected", "error" }

InitB ==
    /\ lockTab = <<>>
    /\ locks = <<>>
    /\ call = [c \in Calls |-> IdleCall]
    /\ srProp = [p \in DevPaths |-> FALSE]

NewLock == [locked |-> FALSE, waiters |-> <<>>]

\* names for the lock objects: a call holds at most one, so these suffice
LockIds == { "L1", "L2", "L3" }

FreshLock(ls) == CHOOSE i \in LockIds : i \notin DOMAIN ls

LockLookupNothing(tab, mac) == NoLock

\* lock = self._lock.get(mac)
LockLookup(tab, mac) == IF mac \in DOMAIN tab THEN tab[mac] ELSE NoLock

\* asyncio.Lock.acquire returns at once when the lock is free and nobody waits
LockFree(l) == ~l.locked /\ l.waiters = <<>>

WithoutNothing(f, xs) == f

Without(f, xs) == [k \in DOMAIN f \ xs |-> f[k]]

ConnectExitKeepsLock(c, result, fail, past) ==
    LET lk == call[c].lock
        held == \E o \in Calls \ {c} : call[o].lock = lk
        gone == IF held THEN {} ELSE {lk}
    IN  /\ call' = [call EXCEPT ![c].pc = result, ![c].lock = NoLock,
                                ![c].fail = fail, ![c].past = past, ![c].steps = <<>>]
        /\ locks' = Without(locks, gone)
        /\ lockTab' = Without(lockTab, {m \in DOMAIN lockTab : lockTab[m] \in gone})

\* The end of connect: the lock is released when the async with block is
\* left, del lock drops this call's reference, and a lock no call refers to
\* any more leaves the weak table.
ConnectExit(c, result, fail, past) ==
    LET lk == call[c].lock
        released == [locks EXCEPT ![lk].locked = FALSE]
        held == \E o \in Calls \ {c} : call[o].lock = lk
        gone == IF held THEN {} ELSE {lk}
    IN  /\ call' = [call EXCEPT ![c].pc = result, ![c].lock = NoLock,
                                ![c].fail = fail, ![c].past = past, ![c].steps = <<>>]
        /\ locks' = Without(released, gone)
        /\ lockTab' = Without(lockTab, {m \in DOMAIN lockTab : lockTab[m] \in gone})

\* connect up to its first suspension: the lock is looked up or created and
\* it is acquired or queued for; with the lock, _connect issues bt_connect.
ConnectBegin(c, mac) ==
    /\ call[c].pc = "idle"
    /\ LET found == LockLookup(lockTab, mac)
           lk == IF found = NoLock THEN FreshLock(locks) ELSE found
           ls == IF found = NoLock THEN Put(locks, lk, NewLock) ELSE locks
       IN  /\ lockTab' = IF found = NoLock THEN Put(lockTab, mac, lk) ELSE lockTab
           /\ IF LockFree(ls[lk])
              THEN /\ locks' = [ls EXCEPT ![lk].locked = TRUE]
                   /\ call' = [call EXCEPT ![c] =
                          [IdleCall EXCEPT !.pc = "connecting", !.mac = mac, !.lock = lk]]
              ELSE /\ locks' = [ls EXCEPT ![lk].waiters = Append(@, c)]
                   /\ call' = [call EXCEPT ![c] =
                          [IdleCall EXCEPT !.pc = "waitlock", !.mac = mac, !.lock = lk]]
    /\ UNCHANGED <<srProp, nvars, cvars, svars>>

\* the first waiter of a released lock resumes, takes it and enters the body
LockWake(c) ==
    /\ call[c].pc = "waitlock"
    /\ LET lk == call[c].lock
       IN  /\ ~locks[lk].locked
           /\ locks[lk].waiters # <<>>
           /\ Head(locks[lk].waiters) = c
           /\ locks' = [locks EXCEPT ![lk].locked = TRUE, ![lk].waiters = Tail(@)]
    /\ call' = [call EXCEPT ![c].pc = "connecting"]
    /\ UNCHANGED <<lockTab, srProp, nvars, cvars, svars>>

\* _connect after bt_connect has failed: any exception is caught and the
\* Connected property (conn) alone decides whether it is raised again
Reraised(res, conn) == res # "ok" /\ ~conn

\* bt_connect completes or fails with res.  Then _connect_and_resolve
\* reads ServicesResolved and, when it is false, awaits task_sr: only then
\* does _dev_property run and start the monitor.
ConnectDone(c, res, conn) ==
    /\ call[c].pc = "connecting"
    /\ LET path == DevicePath(call[c].mac)
           fail == IF res = "ok" THEN None ELSE res
           started == NotifStart(data, SRKey(path), "ServicesResolved")
       IN  IF Reraised(res, conn)
           THEN ConnectExit(c, "raised", fail, FALSE) /\ UNCHANGED data
           ELSE IF srProp[path]
           THEN ConnectExit(c, "returned", fail, TRUE) /\ UNCHANGED data
           ELSE /\ data' = started.data
                /\ call' = [call EXCEPT ![c].pc = "resolving", ![c].fail = fail,
                                        ![c].past = TRUE,
                                        ![c].steps = <<"bt_property_bool">> \o started.native]
                /\ UNCHANGED <<lockTab, locks>>
    /\ UNCHANGED <<srProp, ncall, cvars, svars>>

\* the awaited ServicesResolved change arrives: _dev_property stops the
\* monitor in its finally block and connect returns the device name
ConnectResolved(c) ==
    /\ call[c].pc = "resolving"
    /\ LET key == SRKey(DevicePath(call[c].mac))
       IN  /\ NotifGetReady(data, key, "ServicesResolved")
           /\ data' = NotifStop(NotifGetData(data, key, "ServicesResolved"), key).data
    /\ ConnectExit(c, "returned", call[c].fail, TRUE)
    /\ UNCHANGED <<srProp, ncall, cvars, svars>>

\* the wait for the change fails (the get raises): the monitor is stopped
\* and the error leaves connect
ConnectResolveFail(c) ==
    /\ call[c].pc = "resolving"
    /\ data' = NotifStop(data, SRKey(DevicePath(call[c].mac))).data
    /\ ConnectExit(c, "raised", call[c].fail, TRUE)
    /\ UNCHANGED <<srProp, ncall, cvars, svars>>

\* the caller is done with the result and may call connect again
ConnectReset(c) ==
    /\ call[c].pc \in {"returned", "raised"}
    /\ call' = [call EXCEPT ![c] = IdleCall]
    /\ UNCHANGED <<lockTab, locks, srProp, nvars, cvars, svars>>

\* the device changes ServicesResolved and the bus signals the change
SRChange(path) ==
    /\ LET key == SRKey(path)
       IN  /\ (key \in DOMAIN data) => MonSize(data[key], "ServicesResolved") < MaxQueue
           /\ data' = Deliver(data, key, "ServicesResolved", ~srProp[path])
    /\ srProp' = [srProp EXCEPT ![path] = ~@]
    /\ UNCHANGED <<ncall, lockTab, locks, call, cvars, svars>>

\* the device whose channel the earlier subscriber and connect share
SharedMac == <<"a", ":", "1">>
SharedKey == SRKey(DevicePath(SharedMac))

NextShared ==
    \/ \E c \in Calls : ConnectBegin(c, SharedMac)
    \/ \E c \in Calls : LockWake(c)
    \/ \E c \in Calls, res \in ConnectResults, conn \in BOOLEAN : ConnectDone(c, res, conn)
    \/ \E c \in Calls : ConnectResolved(c)
    \/ \E c \in Calls : ConnectResolveFail(c)
    \/ \E c \in Calls : ConnectReset(c)
    \/ SRChange(DevicePath(SharedMac))
    \/ NGet(SharedKey, "ServicesResolved")

NextBus ==
    \/ \E c \in Calls, mac \in Macs : ConnectBegin(c, mac)
    \/ \E c \in Calls : LockWake(c)
    \/ \E c \in Calls, res \in ConnectResults, conn \in BOOLEAN : ConnectDone(c, res, conn)
    \/ \E c \in Calls : ConnectResolved(c)
    \/ \E c \in Calls : ConnectResolveFail(c)
    \/ \E c \in Calls : ConnectReset(c)
    \/ \E path \in DevPaths : SRChange(path)

(***************************************************************************)
(* ConnectionManager (cm.py): add, __await__, the per-address _reconnect   *)
(* tasks with their enable/wait loop, close and connected.                 *)
(***************************************************************************)
\* cm.py reaches the bus through Bus.get_bus(interface) and bus.dev_path,
\* which the bus.py at hand does not define in that form; they are taken as
\* the bus of the interface and the device path of _device_path.
Devs == { "d1", "d2", "d3" }

\* dev.mac: d1 and d2 are two logical devices of one address
DevMac(d) == IF d = "d3" THEN <<"b", ":", "2">> ELSE <<"a", ":", "1">>

\* the arguments of the add calls: SpecCM manages one address, with one or
\* two logical devices; the other address stays unmanaged
AddArgs == { {"d1"}, {"d1", "d2"} }

NoEvent == <<>>

\* _reconnect passes the address itself as the path of the monitor
CMKey(mac) == <<mac, INTERFACE_DEVICE>>

\* a _reconnect task: where it is, the Event it looked up, the last value of
\* ServicesResolved it was given, how often it has stopped its monitor and
\* how its bt_connect ended
NoTask == [pc |-> "none", ev |-> NoEvent, resolved |-> <<>>, stops |-> 0, conn |-> None]
NoEnable == [cur |-> "idle", stale |-> FALSE]
NoHist ==
    [last |-> None, okSince |-> FALSE, fresh |-> FALSE, phase |-> "start", trans |-> 0,
     ahead |-> 0]
NoClose == [devs |-> <<>>, handle |-> None, calls |-> <<>>]
IdleClient == [pc |-> "idle", mac |-> NoMac, ev |-> NoEvent, err |-> None]

InitC ==
    /\ devices = <<>>
    /\ connected = <<>>
    /\ events = <<>>
    /\ process = FALSE
    /\ handle = None
    /\ mgr = [pc |-> "new", log |-> <<>>, closed |-> NoClose]
    /\ task = [m \in Macs |-> NoTask]
    /\ enab = [d \in Devs |-> NoEnable]
    /\ client = IdleClient
    /\ hist = [m \in Macs |-> NoHist]

\* the readiness signal of an address: the Event now in _connected
Ready(mac) == mac \in DOMAIN connected /\ events[connected[mac]]

\* what the history of an address records: the outcome of the last enable
\* attempt, whether an attempt succeeded since the last notification, whether
\* no notification was taken since the last attempt ended (fresh), and
\* how far the run has followed the course
\*   failed attempts, one notification of true, successful attempts
\* with the number of changes of the signal on that course
PhaseNext(ph, what) ==
    CASE ph = "start" /\ what \in {"fail", "timeout"} -> "unresolved"
      [] ph = "unresolved" /\ what \in {"fail", "timeout"} -> "unresolved"
      [] ph = "unresolved" /\ what = "T" -> "signalled"
      [] ph = "signalled" /\ what = "ok" -> "enabled"
      [] OTHER -> "off"

Flips(h, ph, old, new) ==
    IF ph = "off" THEN 0 ELSE IF old = new THEN h.trans ELSE h.trans + 1

HAttempt(h, what, old, new) ==
    [last |-> what,
     okSince |-> IF what = "ok" THEN TRUE ELSE h.okSince,
     fresh |-> TRUE,
     ahead |-> h.ahead,
     phase |-> PhaseNext(h.phase, what),
     trans |-> Flips(h, PhaseNext(h.phase, what), old, new)]

\* history: the enable attempts started less the notifications taken, no
\* longer followed once an attempt was started without a notification
Ahead(h, taken, started) ==
    [h EXCEPT !.ahead = IF @ > 1 THEN @
                        ELSE @ - (IF taken THEN 1 ELSE 0) + (IF started THEN 1 ELSE 0)]

HConsume(h, v) ==
    LET ph == PhaseNext(h.phase, IF v THEN "T" ELSE "F")
    IN  [h EXCEPT !.okSince = FALSE, !.fresh = FALSE, !.phase = ph,
                  !.trans = Flips(h, ph, v, v)]

\* add: group the devices by address, then give every managed address a new Event
AddDevices(devs) ==
    [m \in DOMAIN devices \cup {DevMac(d) : d \in devs} |->
        (IF m \in DOMAIN devices THEN devices[m] ELSE {}) \cup {d \in devs : DevMac(d) = m}]

\* The Event objects somebody still refers to besides _connected: the ones
\* the tasks looked up and the one a caller of connected waits on.
HeldEvents == ({task[m].ev : m \in Macs} \cup {client.ev}) \ {NoEvent}

\* asyncio.Event(): a new object, named by the address and a number no
\* Event of the address in use has
FreshEvent(mac) == <<mac, CHOOSE n \in 1..3 : <<mac, n>> \notin HeldEvents>>

Add(devs) ==
    /\ devices' = AddDevices(devs)
    /\ connected' = [m \in DOMAIN AddDevices(devs) |-> FreshEvent(m)]
    /\ events' = [e \in HeldEvents \cup {FreshEvent(m) : m \in DOMAIN AddDevices(devs)} |->
                      IF e \in HeldEvents THEN events[e] ELSE FALSE]
    /\ UNCHANGED <<process, handle, mgr, task, enab, client, hist, nvars, bvars, svars>>

\* __await__ up to its first suspension: the flag is set, the agent registered
MgrAwait ==
    /\ mgr.pc = "new"
    /\ process' = TRUE
    /\ mgr' = [mgr EXCEPT !.pc = "agent", !.log = <<"bt_register_agent">>]
    /\ UNCHANGED <<devices, connected, events, handle, task, enab, client, hist,
                   nvars, bvars, svars>>

MgrAgentDone(ok) ==
    /\ mgr.pc = "agent"
    /\ mgr' = IF ok THEN [mgr EXCEPT !.pc = "discovery", !.log = Append(@, "bt_start_discovery")]
              ELSE [mgr EXCEPT !.pc = "failed"]
    /\ UNCHANGED <<devices, connected, events, process, handle, task, enab, client,
                   hist, nvars, bvars, svars>>

MgrDiscoveryDone(ok) ==
    /\ mgr.pc = "discovery"
    /\ mgr' = IF ok THEN [mgr EXCEPT !.pc = "init", !.log = Append(@, "cm_init")]
              ELSE [mgr EXCEPT !.pc = "failed"]
    /\ UNCHANGED <<devices, connected, events, process, handle, task, enab, client,
                   hist, nvars, bvars, svars>>

MgrInitDoneStartsAnyway(ok) ==
    /\ mgr.pc = "init"
    /\ handle' = IF ok THEN "handle" ELSE handle
    /\ mgr' = [mgr EXCEPT !.pc = IF ok THEN "gather" ELSE "failed"]
    /\ task' = [m \in Macs |->
                   IF m \in DOMAIN devices THEN [NoTask EXCEPT !.pc = "start"]
                   ELSE task[m]]
    /\ UNCHANGED <<devices, connected, events, process, enab, client, hist,
                   nvars, bvars, svars>>

\* cm_init returns the handle; gather makes one _reconnect task per address
MgrInitDone(ok) ==
    /\ mgr.pc = "init"
    /\ IF ok
       THEN /\ handle' = "handle"
            /\ mgr' = [mgr EXCEPT !.pc = "gather"]
            /\ task' = [m \in Macs |->
                           IF m \in DOMAIN devices THEN [NoTask EXCEPT !.pc = "start"]
                           ELSE task[m]]
       ELSE /\ mgr' = [mgr EXCEPT !.pc = "failed"]
            /\ UNCHANGED <<handle, task>>
    /\ UNCHANGED <<devices, connected, events, process, enab, client, hist,
                   nvars, bvars, svars>>

\* gather raises the first exception of a task; the other tasks run on
MgrGatherFail ==
    /\ mgr.pc = "gather"
    /\ \E m \in Macs : task[m].pc = "failed"
    /\ mgr' = [mgr EXCEPT !.pc = "failed"]
    /\ UNCHANGED <<devices, connected, events, process, handle, task, enab, client,
                   hist, nvars, bvars, svars>>

MgrGatherDone ==
    /\ mgr.pc = "gather"
    /\ \A m \in Macs : task[m].pc \in {"none", "done"}
    /\ mgr' = [mgr EXCEPT !.pc = "done"]
    /\ UNCHANGED <<devices, connected, events, process, handle, task, enab, client,
                   hist, nvars, bvars, svars>>

\* the addresses in the order add met them: the add calls of the model
\* meet a:1 before b:2
MacOrder == << <<"a", ":", "1">>, <<"b", ":", "2">> >>

\* bus.dev_path(mac)
DevPath(mac) == DevicePath(mac)

RECURSIVE DisconnectCalls(_)
DisconnectCalls(ms) ==
    IF ms = <<>> THEN <<>>
    ELSE (IF Head(ms) \in DOMAIN devices
          THEN << <<"bt_disconnect", DevPath(Head(ms))>>, <<"bt_remove", DevPath(Head(ms))>> >>
          ELSE <<>>) \o DisconnectCalls(Tail(ms))

\* the order in which the devices of one address are visited (the order of
\* a set, which the code leaves open)
DevOrder == <<"d1", "d2", "d3">>

RECURSIVE DevCloseCalls(_)
DevCloseCalls(ds) ==
    IF ds = <<>> THEN <<>>
    ELSE (IF DevMac(Head(ds)) \in DOMAIN devices /\ Head(ds) \in devices[DevMac(Head(ds))]
          THEN << <<"close", Head(ds)>> >>
          ELSE <<>>) \o DevCloseCalls(Tail(ds))

CloseCallsDisconnectFirst ==
    [devs |-> devices,
     handle |-> handle,
     calls |-> << <<"clear_flag">> >> \o DisconnectCalls(MacOrder) \o DevCloseCalls(DevOrder)
               \o << <<"bt_unregister_agent">> >>
               \o (IF handle # None THEN << <<"cm_close", handle>> >> ELSE <<>>)]

\* what one call of close does, with the devices and handle it found: the flag is
\* cleared, dev.close() for every device, then per address disconnect and
\* remove, then the agent, then cm_close when __await__ got a handle
CloseCalls ==
    [devs |-> devices,
     handle |-> handle,
     calls |-> << <<"clear_flag">> >> \o DevCloseCalls(DevOrder) \o DisconnectCalls(MacOrder)
               \o << <<"bt_unregister_agent">> >>
               \o (IF handle # None THEN << <<"cm_close", handle>> >> ELSE <<>>)]

\* close: no suspension point, so one step
Close ==
    /\ process' = FALSE
    /\ mgr' = [mgr EXCEPT !.closed = CloseCalls]
    /\ UNCHANGED <<devices, connected, events, handle, task, enab, client, hist,
                   nvars, bvars, svars>>

\* _reconnect up to its first suspension: start the monitor, issue bt_connect
TaskStart(mac) ==
    /\ task[mac].pc = "start"
    /\ data' = NotifStart(data, CMKey(mac), "ServicesResolved").data
    /\ task' = [task EXCEPT ![mac].pc = "connecting"]
    /\ UNCHANGED <<ncall, devices, connected, events, process, handle, mgr, enab,
                   client, hist, bvars, svars>>

RunningAlways == TRUE

\* while self._process
Running == process

CnSetClears(evs, ev) == [evs EXCEPT ![ev] = FALSE]

CnClearSets(evs, ev) == [evs EXCEPT ![ev] = TRUE]

\* cn_set and cn_clear of _restart: the Event the task looked up on entry
CnSet(evs, ev) == [evs EXCEPT ![ev] = TRUE]

CnClear(evs, ev) == [evs EXCEPT ![ev] = FALSE]

\* gather has raised or returned: the enable calls of the attempt that still
\* run are left running, no longer awaited (stale: d has such a call)
Abort(en, mac) ==
    [d \in Devs |->
        IF DevMac(d) = mac /\ en[d].cur # "idle"
        THEN [cur |-> "idle",
              stale |-> en[d].stale \/ en[d].cur = "run"]
        ELSE en[d]]

\* _enable: dev.enable() under wait_for for every device of the address
StartAttempt(en, mac) ==
    [d \in Devs |-> IF d \in devices[mac] THEN [en[d] EXCEPT !.cur = "run"] ELSE en[d]]

LoopHeadKeepsMonitor(mac, d0, tk, en) ==
    IF Running
    THEN /\ data' = d0
         /\ task' = [task EXCEPT ![mac] = [tk EXCEPT !.pc = "enabling"]]
         /\ enab' = StartAttempt(en, mac)
    ELSE /\ data' = d0
         /\ task' = [task EXCEPT ![mac] = [tk EXCEPT !.pc = "done"]]
         /\ enab' = en

\* the head of the loop of _restart with monitor table d0, task record tk and
\* enable calls en: the next attempt when the manager runs, else the loop
\* ends and the finally block of _reconnect stops the monitor
LoopHead(mac, d0, tk, en) ==
    IF Running
    THEN /\ data' = d0
         /\ task' = [task EXCEPT ![mac] = [tk EXCEPT !.pc = "enabling"]]
         /\ enab' = StartAttempt(en, mac)
    ELSE /\ data' = NotifStop(d0, CMKey(mac)).data
         /\ task' = [task EXCEPT ![mac] =
                         [tk EXCEPT !.pc = "done",
                                    !.stops = @ + Count(NotifStop(d0, CMKey(mac)).native, "stop")]]
         /\ enab' = en

TaskConnectDoneKeepsMonitor(mac, res) ==
    /\ task[mac].pc = "connecting"
    /\ IF res = "error"
       THEN /\ data' = data
            /\ task' = [task EXCEPT ![mac].pc = "failed", ![mac].conn = res]
            /\ enab' = enab
            /\ hist' = hist
       ELSE /\ LoopHead(mac, data, [task[mac] EXCEPT !.ev = connected[mac], !.conn = res], enab)
            /\ hist' = [hist EXCEPT ![mac] = Ahead(@, FALSE, Running)]
    /\ UNCHANGED <<ncall, devices, connected, events, process, handle, mgr, client,
                   bvars, svars>>

\* bt_connect of the adapter returns or raises
TaskConnectDone(mac, res) ==
    /\ task[mac].pc = "connecting"
    /\ IF res = "error"
       THEN /\ data' = NotifStop(data, CMKey(mac)).data
            /\ task' = [task EXCEPT ![mac].pc = "failed",
                                    ![mac].conn = res,
                                    ![mac].stops = @ + Count(NotifStop(data, CMKey(mac)).native, "stop")]
            /\ enab' = enab
            /\ hist' = hist
       ELSE /\ LoopHead(mac, data, [task[mac] EXCEPT !.ev = connected[mac], !.conn = res], enab)
            /\ hist' = [hist EXCEPT ![mac] = Ahead(@, FALSE, Running)]
    /\ UNCHANGED <<ncall, devices, connected, events, process, handle, mgr, client,
                   bvars, svars>>

Attempt(mac, en) == {d \in Devs : DevMac(d) = mac /\ en[d].cur # "idle"}

\* dev.enable() of d returns; when it was the last one, gather returns,
\* _enable breaks out of its loop and _restart sets the signal
EnableOk(d) ==
    LET mac == DevMac(d)
        en1 == [enab EXCEPT ![d].cur = "ok"]
        ev == task[mac].ev
    IN  /\ task[mac].pc = "enabling"
        /\ enab[d].cur = "run"
        /\ IF \A x \in Attempt(mac, en1) : en1[x].cur = "ok"
           THEN /\ enab' = Abort(en1, mac)
                /\ events' = CnSet(events, ev)
                /\ task' = [task EXCEPT ![mac].pc = "waiting"]
                /\ hist' = [hist EXCEPT ![mac] =
                               HAttempt(@, "ok", events[ev], CnSet(events, ev)[ev])]
           ELSE /\ enab' = en1
                /\ UNCHANGED <<events, task, hist>>
        /\ UNCHANGED <<devices, connected, process, handle, mgr, client,
                       nvars, bvars, svars>>

\* dev.enable() of d raises: gather raises it, _enable lets it through and
\* _restart clears the signal and goes on to wait for a notification
EnableFail(d) ==
    LET mac == DevMac(d)
        ev == task[mac].ev
    IN  /\ task[mac].pc = "enabling"
        /\ enab[d].cur = "run"
        /\ enab' = Abort([enab EXCEPT ![d].cur = "idle"], mac)
        /\ events' = CnClear(events, ev)
        /\ task' = [task EXCEPT ![mac].pc = "waiting"]
        /\ hist' = [hist EXCEPT ![mac] =
                       HAttempt(@, "fail", events[ev], CnClear(events, ev)[ev])]
        /\ UNCHANGED <<devices, connected, process, handle, mgr, client,
                       nvars, bvars, svars>>

\* wait_for of d times out: the call is cancelled, gather raises
\* TimeoutError and _enable catches it.  Its loop tries again when the
\* manager runs; otherwise the loop ends, _enable returns and _restart
\* takes the else branch of its try.
EnableTimeout(d) ==
    LET mac == DevMac(d)
        ev == task[mac].ev
        en1 == Abort([enab EXCEPT ![d].cur = "idle"], mac)
    IN  /\ task[mac].pc = "enabling"
        /\ enab[d].cur = "run"
        /\ IF Running
           THEN /\ enab' = StartAttempt(en1, mac)
                /\ hist' = [hist EXCEPT ![mac] =
                               Ahead(HAttempt(@, "timeout", events[ev], events[ev]),
                                     FALSE, TRUE)]
                /\ UNCHANGED <<events, task>>
           ELSE /\ enab' = en1
                /\ events' = CnSet(events, ev)
                /\ task' = [task EXCEPT ![mac].pc = "waiting"]
                /\ hist' = [hist EXCEPT ![mac] =
                               HAttempt(@, "timeout", events[ev], CnSet(events, ev)[ev])]
        /\ UNCHANGED <<devices, connected, process, handle, mgr, client,
                       nvars, bvars, svars>>

\* the enable calls of d that nobody awaits any more have ended
StaleDone(d) ==
    /\ enab[d].stale
    /\ enab' = [enab EXCEPT ![d].stale = FALSE]
    /\ UNCHANGED <<devices, connected, events, process, handle, mgr, task, client,
                   hist, nvars, bvars, svars>>

\* _dev_property_get returns the next ServicesResolved value
TaskNotified(mac) ==
    LET key == CMKey(mac)
        v == NotifGetValue(data, key, "ServicesResolved")
    IN  /\ task[mac].pc = "waiting"
        /\ NotifGetReady(data, key, "ServicesResolved")
        /\ LoopHead(mac, NotifGetData(data, key, "ServicesResolved"),
                    [task[mac] EXCEPT !.resolved = <<v>>], enab)
        /\ hist' = [hist EXCEPT ![mac] = Ahead(HConsume(@, v), TRUE, Running)]
        /\ UNCHANGED <<ncall, devices, connected, events, process, handle, mgr,
                       client, bvars, svars>>

\* the bus signals a change of ServicesResolved to the monitor of the task
CMSignal(mac, v) ==
    LET key == CMKey(mac)
    IN  /\ key \in DOMAIN data
        /\ MonIsRegistered(data[key], "ServicesResolved")
        /\ ~data[key].stopped
        /\ MonSize(data[key], "ServicesResolved") < MaxQueue
        /\ data' = Deliver(data, key, "ServicesResolved", v)
        /\ UNCHANGED <<ncall, cvars, bvars, svars>>

\* connected(mac): raise for an address that is not managed, else wait
ClientCall(mac) ==
    /\ client.pc = "idle"
    /\ client' =
          IF mac \notin DOMAIN connected
          THEN [pc |-> "raised", mac |-> mac, ev |-> NoEvent, err |-> "ValueError"]
          ELSE [pc |-> IF events[connected[mac]] THEN "returned" ELSE "waiting",
                mac |-> mac, ev |-> connected[mac], err |-> None]
    /\ UNCHANGED <<devices, connected, events, process, handle, mgr, task, enab,
                   hist, nvars, bvars, svars>>

ClientWake ==
    /\ client.pc = "waiting"
    /\ events[client.ev]
    /\ client' = [client EXCEPT !.pc = "returned"]
    /\ UNCHANGED <<devices, connected, events, process, handle, mgr, task, enab,
                   hist, nvars, bvars, svars>>

ClientReset ==
    /\ client.pc \in {"returned", "raised"}
    /\ client' = IdleClient
    /\ UNCHANGED <<devices, connected, events, process, handle, mgr, task, enab,
                   hist, nvars, bvars, svars>>

NextCM ==
    \/ \E devs \in AddArgs : Add(devs)
    \/ MgrAwait
    \/ \E ok \in BOOLEAN : MgrAgentDone(ok)
    \/ \E ok \in BOOLEAN : MgrDiscoveryDone(ok)
    \/ \E ok \in BOOLEAN : MgrInitDone(ok)
    \/ MgrGatherFail
    \/ MgrGatherDone
    \/ Close
    \/ \E mac \in Macs : TaskStart(mac)
    \/ \E mac \in Macs, res \in {"ok", "Already Exists", "error"} : TaskConnectDone(mac, res)
    \/ \E d \in Devs : EnableOk(d)
    \/ \E d \in Devs : EnableFail(d)
    \/ \E d \in Devs : EnableTimeout(d)
    \/ \E d \in Devs : StaleDone(d)
    \/ \E mac \in Macs : TaskNotified(mac)
    \/ \E mac \in Macs, v \in BOOLEAN : CMSignal(mac, v)
    \/ \E mac \in Macs : ClientCall(mac)
    \/ ClientWake
    \/ ClientReset

\* add() with one device of each of the two addresses
TwoAddresses == {"d1", "d3"}

\* the manager with two addresses, one logical object each, whose enable
\* calls end without running into the timeout and whose devices resolve
NextCM2 ==
    \/ Add(TwoAddresses)
    \/ MgrAwait
    \/ \E ok \in BOOLEAN : MgrAgentDone(ok)
    \/ \E ok \in BOOLEAN : MgrDiscoveryDone(ok)
    \/ \E ok \in BOOLEAN : MgrInitDone(ok)
    \/ MgrGatherFail
    \/ MgrGatherDone
    \/ Close
    \/ \E mac \in Macs : TaskStart(mac)
    \/ \E mac \in Macs, res \in {"ok", "Already Exists", "error"} : TaskConnectDone(mac, res)
    \/ \E d \in Devs : EnableOk(d)
    \/ \E d \in Devs : EnableFail(d)
    \/ \E mac \in Macs : TaskNotified(mac)
    \/ \E mac \in Macs : CMSignal(mac, TRUE)

\* add() with the two devices of one address
OneAddress == {"d1", "d2"}

\* an enable() call of the address ends, one way or another
EnableEnds(mac) ==
    \E d \in Devs :
        DevMac(d) = mac /\ (EnableOk(d) \/ EnableFail(d) \/ EnableTimeout(d))

\* the manager of one address with two logical objects, run and closed
NextCMRun ==
    \/ Add(OneAddress)
    \/ MgrAwait
    \/ \E ok \in BOOLEAN : MgrAgentDone(ok)
    \/ \E ok \in BOOLEAN : MgrDiscoveryDone(ok)
    \/ \E ok \in BOOLEAN : MgrInitDone(ok)
    \/ MgrGatherFail
    \/ MgrGatherDone
    \/ Close
    \/ \E mac \in Macs : TaskStart(mac)
    \/ \E mac \in Macs, res \in {"ok", "Already Exists", "error"} : TaskConnectDone(mac, res)
    \/ \E mac \in Macs : EnableEnds(mac)
    \/ \E d \in Devs : StaleDone(d)
    \/ \E mac \in Macs : TaskNotified(mac)
    \/ \E mac \in Macs, v \in BOOLEAN : CMSignal(mac, v)

(***************************************************************************)
(* Serial (serial.py): connect, read and write over the four               *)
(* characteristics, and the peer that sends frames and grants credit.      *)
(***************************************************************************)
FRAME_SIZE == 20
CREDIT_CAP == 255
INITIAL_CREDITS == 32

\* the sizes asked of read, the lengths of the frames the peer sends and
\* the credit the peer grants with one notification
ReadSizes == { 1, 21 }
FrameLens == { 7, 20 }
PeerGrants == { 1, 2 }

\* bound of the model: the credit the peer lets us hold
MaxTxCredit == 2

\* the reads that need more frames than the initial grant covers, and the
\* frames the peer answers them with
LongReadSizes == { 660 }
LongFrameLens == { 20 }

CeilDiv(a, b) == -((-a) \div b)

Least(a, b) == IF a < b THEN a ELSE b

\* the frames the longest read needs at least
MostFrames == CeilDiv(CHOOSE n \in LongReadSizes : \A m \in LongReadSizes : m <= n, FRAME_SIZE)

\* history: the grants written by connect and by read, summed up to the
\* most a read of the model asks about
Issue(i, k) == Least(MostFrames, i + k)

CreditsForUncapped(len, n) == CeilDiv(n - len, FRAME_SIZE)

CreditsForFloor(len, n) == Least(CREDIT_CAP, (n - len) \div FRAME_SIZE)

\* credits_for(data, n), with len the length of data
CreditsFor(len, n) == Least(CREDIT_CAP, CeilDiv(n - len, FRAME_SIZE))

NewSerial ==
    [pc |-> "new", rx_credits |-> 0, tx_credit |-> <<>>, tx_uart |-> <<>>,
     subs |-> {}, wire |-> <<>>]
IdleRead == [pc |-> "idle", n |-> 0, len |-> 0, k |-> 0, grants |-> 0]
IdleWrite == [pc |-> "idle"]
NewPeer == [rxLeft |-> 0, txLeft |-> 0, issued |-> 0]

InitS ==
    /\ ser = NewSerial
    /\ rd = IdleRead
    /\ wr = IdleWrite
    /\ peer = NewPeer

\* connect up to its first suspension: await BUS.connect
SerConnect ==
    /\ ser.pc = "new"
    /\ ser' = [ser EXCEPT !.pc = "connecting"]
    /\ UNCHANGED <<rd, wr, peer, nvars, bvars, cvars>>

\* BUS.connect returns: both notifications are subscribed, the ledger is
\* zeroed and _add_rx_credits writes the initial grant
SerBusConnected(ok) ==
    /\ ser.pc = "connecting"
    /\ ser' = IF ok
              THEN [ser EXCEPT !.pc = "grant", !.rx_credits = 0,
                               !.subs = {"tx_credit", "tx_uart"},
                               !.wire = <<"notify tx_credit", "notify tx_uart",
                                          "grant">>]
              ELSE [ser EXCEPT !.pc = "failed"]
    /\ UNCHANGED <<rd, wr, peer, nvars, bvars, cvars>>

\* _add_rx_credits after its write: the ledger grows by the grant, which
\* the peer has received
Granted(s, n) == [s EXCEPT !.rx_credits = @ + n]

SerGrantDone(ok) ==
    /\ ser.pc = "grant"
    /\ IF ok
       THEN /\ ser' = [Granted(ser, INITIAL_CREDITS) EXCEPT !.pc = "credit"]
            /\ peer' = [peer EXCEPT !.rxLeft = @ + INITIAL_CREDITS,
                                    !.issued = Issue(@, INITIAL_CREDITS)]
       ELSE /\ ser' = [ser EXCEPT !.pc = "failed"]
            /\ peer' = peer
    /\ UNCHANGED <<rd, wr, nvars, bvars, cvars>>

SerCreditGotWithoutCredit ==
    /\ ser.pc = "credit"
    /\ ser' = [ser EXCEPT !.pc = "connected",
                          !.tx_credit = IF @ = <<>> THEN @ ELSE Tail(@)]
    /\ UNCHANGED <<rd, wr, peer, nvars, bvars, cvars>>

\* the first credit notification of the peer ends connect
SerCreditGot ==
    /\ ser.pc = "credit"
    /\ ser.tx_credit # <<>>
    /\ ser' = [ser EXCEPT !.pc = "connected", !.tx_credit = Tail(@)]
    /\ UNCHANGED <<rd, wr, peer, nvars, bvars, cvars>>

\* the peer grants us v credits with one notification
PeerGrant(v) ==
    /\ "tx_credit" \in ser.subs
    /\ Len(ser.tx_credit) < MaxQueue
    /\ peer.txLeft + v <= MaxTxCredit
    /\ ser' = [ser EXCEPT !.tx_credit = Append(@, v)]
    /\ peer' = [peer EXCEPT !.txLeft = @ + v]
    /\ UNCHANGED <<rd, wr, nvars, bvars, cvars>>

\* the peer sends a frame of len bytes against the credit it holds
PeerFrame(len) ==
    /\ "tx_uart" \in ser.subs
    /\ Len(ser.tx_uart) < MaxQueue
    /\ peer.rxLeft > 0
    /\ ser' = [ser EXCEPT !.tx_uart = Append(@, len)]
    /\ peer' = [peer EXCEPT !.rxLeft = @ - 1]
    /\ UNCHANGED <<rd, wr, nvars, bvars, cvars>>

ReadLoopNeverGrants(r, credits, dbg) ==
    IF r.len < r.n THEN [r EXCEPT !.pc = "frame"]
    ELSE IF r.len = r.n \/ ~dbg THEN [r EXCEPT !.pc = "done"]
    ELSE [r EXCEPT !.pc = "AssertionError"]

\* The head of the loop of read with the ledger at credits: while len is
\* below n, _rx_credits_mgr writes a grant when the ledger is below 1 and
\* the frame is awaited.  After the loop the assert wants exactly n: with
\* assertions on (dbg) more than n bytes raise AssertionError, with
\* assertions off (python -O) all the bytes are returned.
ReadLoop(r, credits, dbg) ==
    IF r.len < r.n
    THEN IF credits < 1
         THEN [r EXCEPT !.pc = "grant", !.k = CreditsFor(r.len, r.n)]
         ELSE [r EXCEPT !.pc = "frame"]
    ELSE IF r.len = r.n \/ ~dbg THEN [r EXCEPT !.pc = "done"]
    ELSE [r EXCEPT !.pc = "AssertionError"]

ReadCall(n) ==
    /\ ser.pc = "connected"
    /\ rd.pc = "idle"
    /\ rd' = ReadLoop([IdleRead EXCEPT !.n = n], ser.rx_credits, TRUE)
    /\ UNCHANGED <<ser, wr, peer, nvars, bvars, cvars>>

\* the write of the grant of read completes, or fails before the ledger moves
ReadGrantDone(ok) ==
    /\ rd.pc = "grant"
    /\ IF ok
       THEN /\ ser' = Granted(ser, rd.k)
            /\ peer' = [peer EXCEPT !.rxLeft = @ + rd.k, !.issued = Issue(@, rd.k)]
            /\ rd' = [rd EXCEPT !.pc = "frame", !.grants = @ + rd.k]
       ELSE /\ rd' = [rd EXCEPT !.pc = "failed"]
            /\ UNCHANGED <<ser, peer>>
    /\ UNCHANGED <<wr, nvars, bvars, cvars>>

\* tx.get() returns a frame: the data grows, the ledger is decremented on
\* leaving _rx_credits_mgr and the loop goes on
ReadFrame(dbg) ==
    /\ rd.pc = "frame"
    /\ ser.tx_uart # <<>>
    /\ ser' = [ser EXCEPT !.tx_uart = Tail(@), !.rx_credits = @ - 1]
    /\ rd' = ReadLoop([rd EXCEPT !.len = @ + Head(ser.tx_uart)], ser.rx_credits - 1, dbg)
    /\ UNCHANGED <<wr, peer, nvars, bvars, cvars>>

\* a frame of the peer arrives as a read error and tx.get() raises: the
\* finally of _rx_credits_mgr still decrements
ReadFrameFail ==
    /\ rd.pc = "frame"
    /\ ser.tx_uart = <<>>
    /\ peer.rxLeft > 0
    /\ ser' = [ser EXCEPT !.rx_credits = @ - 1]
    /\ peer' = [peer EXCEPT !.rxLeft = @ - 1]
    /\ rd' = [rd EXCEPT !.pc = "failed"]
    /\ UNCHANGED <<wr, nvars, bvars, cvars>>

ReadReset ==
    /\ rd.pc \in {"done", "failed", "AssertionError"}
    /\ rd' = IdleRead
    /\ UNCHANGED <<ser, wr, peer, nvars, bvars, cvars>>

\* write after its grant step: one queued credit notification is consumed
\* when there is one, and the frame is written either way
WriteFrame(s, p) ==
    /\ ser' = [s EXCEPT !.tx_credit = IF @ # <<>> THEN Tail(@) ELSE @]
    /\ peer' = [p EXCEPT !.txLeft = IF @ < 0 THEN @ ELSE @ - 1]
    /\ wr' = [pc |-> "write"]

WriteCall ==
    /\ ser.pc = "connected"
    /\ wr.pc = "idle"
    /\ IF ser.rx_credits < 1
       THEN wr' = [pc |-> "grant"] /\ UNCHANGED <<ser, peer>>
       ELSE WriteFrame(ser, peer)
    /\ UNCHANGED <<rd, nvars, bvars, cvars>>

WriteGrantDone(ok) ==
    /\ wr.pc = "grant"
    /\ IF ok
       THEN WriteFrame(Granted(ser, INITIAL_CREDITS),
                       [peer EXCEPT !.rxLeft = @ + INITIAL_CREDITS])
       ELSE wr' = [pc |-> "failed"] /\ UNCHANGED <<ser, peer>>
    /\ UNCHANGED <<rd, nvars, bvars, cvars>>

WriteDone(ok) ==
    /\ wr.pc = "write"
    /\ wr' = [pc |-> IF ok THEN "done" ELSE "failed"]
    /\ UNCHANGED <<ser, rd, peer, nvars, bvars, cvars>>

WriteReset ==
    /\ wr.pc \in {"done", "failed"}
    /\ wr' = IdleWrite
    /\ UNCHANGED <<ser, rd, peer, nvars, bvars, cvars>>

NextSerial ==
    \/ SerConnect
    \/ \E ok \in BOOLEAN : SerBusConnected(ok)
    \/ \E ok \in BOOLEAN : SerGrantDone(ok)
    \/ SerCreditGot
    \/ \E v \in PeerGrants : PeerGrant(v)
    \/ \E len \in FrameLens : PeerFrame(len)
    \/ \E n \in ReadSizes : ReadCall(n)
    \/ \E ok \in BOOLEAN : ReadGrantDone(ok)
    \/ \E dbg \in BOOLEAN : ReadFrame(dbg)
    \/ ReadFrameFail
    \/ ReadReset
    \/ WriteCall
    \/ \E ok \in BOOLEAN : WriteGrantDone(ok)
    \/ \E ok \in BOOLEAN : WriteDone(ok)
    \/ WriteReset

\* credits_for on its own: the buffer lengths and sizes it is applied to
BufferLens == { 0, 1, 19, 20, 21, 90, 100, 101 }
AskedSizes == { 1, 20, 21, 40, 100, 5100, 5101, 5121, 10000 }

\* credits_for(data, n) is called for a buffer of len bytes
CreditsForCall ==
    /\ rd.pc = "idle"
    /\ rd' = [rd EXCEPT !.pc = "credits_for", !.k = CreditsFor(rd.len, rd.n)]
    /\ UNCHANGED <<ser, wr, peer, nvars, bvars, cvars>>

\* the next buffer and size
CreditsForAsk(len, n) ==
    /\ rd.pc = "credits_for"
    /\ rd' = [IdleRead EXCEPT !.len = len, !.n = n]
    /\ UNCHANGED <<ser, wr, peer, nvars, bvars, cvars>>

NextCredits ==
    \/ CreditsForCall
    \/ \E len \in BufferLens, n \in AskedSizes : CreditsForAsk(len, n)

\* close on its own: the manager before startup or after a startup that
\* found no device, devices of one or two addresses added, then closed
CloseAddArgs == { {"d1"}, {"d1", "d2"}, {"d1", "d3"}, {"d1", "d2", "d3"} }

Started ==
    /\ devices = <<>>
    /\ connected = <<>>
    /\ events = <<>>
    /\ process = TRUE
    /\ handle = "handle"
    /\ mgr = [pc |-> "done", log |-> <<"bt_register_agent", "bt_start_discovery", "cm_init">>,
              closed |-> NoClose]
    /\ task = [m \in Macs |-> NoTask]
    /\ enab = [d \in Devs |-> NoEnable]
    /\ client = IdleClient
    /\ hist = [m \in Macs |-> NoHist]

NextClose ==
    \/ \E devs \in CloseAddArgs : Add(devs)
    \/ Close
    \/ \E mac \in Macs : ClientCall(mac)
    \/ ClientReset

\* the same object asked for long reads
NextLongRead ==
    \/ SerConnect
    \/ \E ok \in BOOLEAN : SerBusConnected(ok)
    \/ \E ok \in BOOLEAN : SerGrantDone(ok)
    \/ SerCreditGot
    \/ \E v \in PeerGrants : PeerGrant(v)
    \/ \E len \in LongFrameLens : PeerFrame(len)
    \/ \E n \in LongReadSizes : ReadCall(n)
    \/ \E ok \in BOOLEAN : ReadGrantDone(ok)
    \/ \E dbg \in BOOLEAN : ReadFrame(dbg)
    \/ ReadFrameFail
    \/ ReadReset
    \/ WriteCall
    \/ \E ok \in BOOLEAN : WriteGrantDone(ok)
    \/ \E ok \in BOOLEAN : WriteDone(ok)
    \/ WriteReset

(***************************************************************************)
(* The specifications.                                                     *)
(***************************************************************************)
InitBus ==
    /\ InitN /\ InitC /\ InitS
    /\ lockTab = <<>>
    /\ locks = <<>>
    /\ call = [c \in Calls |-> IdleCall]
    /\ srProp \in [DevPaths -> BOOLEAN]

SpecBus == InitBus /\ [][NextBus]_vars

\* connect calls on a device whose ServicesResolved somebody monitors
\* already: _dev_property_start was called on the device's channel before
InitShared ==
    /\ data = NotifStart(<<>>, SharedKey, "ServicesResolved").data
    /\ ncall = NoCall
    /\ InitB /\ InitC /\ InitS

SpecShared == InitShared /\ [][NextShared]_vars

InitNotif == InitN /\ InitB /\ InitC /\ InitS

SpecNotif == InitNotif /\ [][NextNotif]_vars

InitCM == InitN /\ InitB /\ InitC /\ InitS

SpecCM == InitCM /\ [][NextCM]_vars

SpecCM2 == InitCM /\ [][NextCM2]_vars

\* The event loop runs every task that is ready, so a task whose
\* notification has arrived takes it; the enable calls in flight end (each is
\* under wait_for with the enable timeout); and the bus delivers a further
\* change of ServicesResolved to a monitor that is registered.
FairCM ==
    \A mac \in Macs :
        /\ WF_vars(EnableEnds(mac))
        /\ WF_vars(TaskNotified(mac))
        /\ WF_vars(\E v \in BOOLEAN : CMSignal(mac, v))

SpecCMFair == InitCM /\ [][NextCMRun]_vars /\ FairCM

InitSerial == InitN /\ InitB /\ InitC /\ InitS

SpecSerial == InitSerial /\ [][NextSerial]_vars

SpecLongRead == InitSerial /\ [][NextLongRead]_vars

InitCredits ==
    /\ InitN /\ InitB /\ InitC
    /\ ser = NewSerial
    /\ wr = IdleWrite
    /\ peer = NewPeer
    /\ \E len \in BufferLens, n \in AskedSizes : rd = [IdleRead EXCEPT !.len = len, !.n = n]

SpecCredits == InitCredits /\ [][NextCredits]_vars

InitClose == InitN /\ InitB /\ InitS /\ (InitC \/ Started)

SpecClose == InitClose /\ [][NextClose]_vars

\* the connect calls inside the locked connect-and-resolve body for an address
InBody(mac) == {c \in Calls : call[c].mac = mac /\ call[c].pc \in {"connecting", "resolving"}}

\* C1: for every address at most one connect call is inside the locked
\* connect-and-resolve body at any time.
C1_OneConnectPerAddress == \A mac \in Macs : Cardinality(InBody(mac)) <= 1

C1_SecondCallWaits ==
    \E c \in Calls, o \in Calls :
        /\ c # o
        /\ call[c].mac = call[o].mac
        /\ call[c].pc = "resolving"
        /\ call[o].pc = "waitlock"
        /\ call[c].lock = call[o].lock

(***************************************************************************)
(* Claims about Notifications, checked under SpecNotif.                    *)
(***************************************************************************)

\* C4: a channel is in the table exactly when a property is registered on
\* it, and a stop that returned has removed the channel's entry.
C4_ChannelIffRegistered ==
    /\ \A k \in Keys : (k \in DOMAIN data) <=> (Registered(data, k) # {})
    /\ (ncall.op = "stop" /\ ncall.raised = None) => ncall.key \notin DOMAIN data

\* C9: a start of a property that is already registered makes no native call
\* and changes nothing, and as long as the channel was not stopped its
\* monitor was created once and the property registered once.
C9_StartIdempotent ==
    /\ (ncall.op = "start" /\ ncall.name \in ncall.pre) =>
           (ncall.same /\ ncall.native = <<>> /\ ncall.raised = None)
    /\ (ncall.op = "start" /\ ncall.present) =>
           Count(ncall.native, "bt_property_monitor_start") = 0
    /\ \A k \in NKeys, n \in Names :
           (ncall.starts[k][n] >= 1 /\ ncall.stops[k] = 0) =>
               (ncall.monitors[k] = 1 /\ ncall.registers[k][n] = 1)

C9_StartedTwice ==
    /\ ncall.op = "start"
    /\ ncall.name \in ncall.pre
    /\ ncall.starts[ncall.key][ncall.name] >= 2
    /\ ncall.stops[ncall.key] = 0
    /\ ncall.registers[ncall.key][ncall.name] = 1
    /\ ncall.name \in Registered(data, ncall.key)

\* C10: a stop of a channel with no registered property raises nothing,
\* makes no call on the underlying subscription and changes nothing.
C10_StopNoop ==
    (ncall.op = "stop" /\ ncall.pre = {}) =>
        (ncall.raised = None /\ ncall.native = <<>> /\ ncall.same)

(***************************************************************************)
(* Claims about the connection manager, checked under SpecCM.              *)
(***************************************************************************)

\* C2: the readiness signal of an address is set only if the most recent
\* enable attempt for the address succeeded for all its logical devices.
C2_ReadyOnlyAfterSuccess ==
    \A mac \in Macs : Ready(mac) => hist[mac].last = "ok"

\* C3: once the task of an address has observed ServicesResolved change to
\* false, the readiness signal is not set until a later enable succeeds.
C3_NotReadyWhileUnresolved ==
    \A mac \in Macs :
        (task[mac].resolved = <<FALSE>> /\ ~hist[mac].okSince) => ~Ready(mac)

\* C7: connected(address) for an address never passed to add does not wait
\* on a signal and fails with ConfigurationError.
C7_UnmanagedFailsAtOnce ==
    /\ client.pc = "waiting" => client.ev # NoEvent
    /\ client.pc = "raised" => client.err = "ConfigurationError"

\* C8: while the manager runs and the task drives the signal of its address:
\* as long as the enable attempts have failed and at most the one
\* notification of true was consumed, the signal is unset and has not
\* changed; once the enable after that notification has succeeded, the
\* signal is set and has changed exactly once.
C8_SetExactlyOnce ==
    \A mac \in Macs :
        (process /\ task[mac].ev # NoEvent /\ task[mac].ev = connected[mac]) =>
            /\ hist[mac].phase \in {"start", "unresolved", "signalled"} =>
                   (hist[mac].trans = 0 /\ ~Ready(mac))
            /\ hist[mac].phase = "enabled" =>
                   (hist[mac].trans = 1 /\ Ready(mac))

C8_ResolvedThenEnabled ==
    \E mac \in Macs :
        /\ process
        /\ task[mac].pc = "waiting"
        /\ task[mac].ev = connected[mac]
        /\ task[mac].resolved = <<TRUE>>
        /\ hist[mac].phase = "enabled"
        /\ hist[mac].trans = 1
        /\ Ready(mac)

(***************************************************************************)
(* Claims about Serial, checked under SpecSerial.                          *)
(***************************************************************************)

\* C5: the inbound credit ledger is never negative, a grant that read
\* writes is at least 1, and a frame is awaited only with the ledger at 1
\* or more.
C5_LedgerNeverNegative ==
    /\ ser.rx_credits >= 0
    /\ rd.pc = "grant" => rd.k >= 1
    /\ rd.pc = "frame" => ser.rx_credits >= 1

C5_GrantBeforeFrame ==
    /\ rd.pc = "frame"
    /\ rd.grants >= 1
    /\ ser.rx_credits >= 1
    /\ wr.pc # "idle"

\* C6: the frames written never exceed the credit the peer has granted
\* (txLeft is the granted credit less the frames written).
C6_WritesWithinPeerCredit == peer.txLeft >= 0

C12_ReadReturnsExactlyN ==
    /\ rd.pc # "AssertionError"
    /\ rd.pc = "done" => rd.len = rd.n

\* C13: credits_for(buffer, n) is min(255, ceil((n - len(buffer)) / 20)):
\* the least k with 20 k >= n - len, but no more than 255; it is 5 for an
\* empty buffer and n = 100, 1 for 90 bytes and n = 100, and in 1..255
\* whenever len < n.
C13_CreditsForValue ==
    rd.pc = "credits_for" =>
        LET d == rd.n - rd.len
            k == rd.k
        IN  /\ k <= 255
            /\ d > 255 * 20 => k = 255
            /\ d <= 255 * 20 => (20 * k >= d /\ 20 * (k - 1) < d)
            /\ rd.len < rd.n => k \in 1..255
            /\ (rd.len = 0 /\ rd.n = 100) => k = 5
            /\ (rd.len = 90 /\ rd.n = 100) => k = 1
            /\ rd.n = 10000 => k = 255

C13_CappedAndShort ==
    /\ rd.pc = "credits_for"
    /\ \/ rd.len = 90 /\ rd.n = 100 /\ rd.k = 1
       \/ rd.len = 0 /\ rd.n = 10000 /\ rd.k = 255

\* C14: a connect request that failed with an error of the already connected
\* class is swallowed and connect goes on to service resolution; a request
\* that failed with any other error is raised and connect goes no further.
C14_OnlyAlreadyConnectedSwallowed ==
    \A c \in Calls :
        /\ call[c].fail = "AlreadyConnected" => call[c].past
        /\ call[c].fail = "error" => (~call[c].past /\ call[c].pc = "raised")

\* C15: a lock is held only by a connect call that is inside the body, so a
\* call that has returned or raised holds none, and the first waiter of a
\* lock that is not held is a call that can take it and enter the body.
C15_LockReleasedOnExit ==
    /\ \A lk \in DOMAIN locks :
           /\ locks[lk].locked => \E c \in Calls : call[c].lock = lk /\ c \in InBody(call[c].mac)
           /\ (~locks[lk].locked /\ locks[lk].waiters # <<>>) =>
                  LET w == Head(locks[lk].waiters)
                  IN  call[w].pc = "waitlock" /\ call[w].lock = lk
    /\ \A c \in Calls :
           /\ call[c].pc \in {"returned", "raised"} => call[c].lock = NoLock
           /\ call[c].pc = "waitlock" =>
                  /\ call[c].lock \in DOMAIN locks
                  /\ \E i \in DOMAIN locks[call[c].lock].waiters :
                         locks[call[c].lock].waiters[i] = c

\* a call has raised while waiting for service resolution, another has
\* returned, and a third call of the address is inside the body
C15_EntersAfterFailure ==
    \E c \in Calls, o \in Calls, w \in Calls :
        /\ call[c].mac = call[w].mac /\ call[o].mac = call[w].mac
        /\ call[c].pc = "raised" /\ call[c].past
        /\ call[o].pc = "returned"
        /\ call[w].pc = "connecting"

\* the connect calls of an address that have not yet returned or raised
InFlight(mac) ==
    {c \in Calls : call[c].mac = mac /\ call[c].pc \in {"waitlock", "connecting", "resolving"}}

\* C16: the lock table has an entry for an address only while a connect
\* call of the address is in progress, so it has no more entries than
\* there are addresses with a connect in flight.
C16_LockTableBounded ==
    /\ \A mac \in Macs : mac \in DOMAIN lockTab => InFlight(mac) # {}
    /\ Cardinality(DOMAIN lockTab) <= Cardinality({mac \in Macs : InFlight(mac) # {}})
    /\ \A lk \in DOMAIN locks : \E mac \in DOMAIN lockTab : lockTab[mac] = lk

\* the calls of one address are over, one returned and one raised, and its
\* entry is gone while the other address still has its entry
C16_EntryGoneAfterCalls ==
    \E c \in Calls, o \in Calls, w \in Calls :
        /\ call[c].pc = "returned" /\ call[o].pc = "raised"
        /\ call[c].mac = call[o].mac
        /\ call[c].mac \notin DOMAIN lockTab
        /\ call[w].pc = "resolving"
        /\ call[w].mac \in DOMAIN lockTab

StartupCalls == <<"bt_register_agent", "bt_start_discovery", "cm_init">>

\* C18: awaiting the manager registers the agent, starts discovery and
\* initialises the handle, in this order and once each; a reconnection task
\* (its monitor, its connect attempt) exists only after all three have
\* completed, and none exists when one of them has failed.
C18_StartupBeforeTasks ==
    /\ Len(mgr.log) <= Len(StartupCalls)
    /\ mgr.log = SubSeq(StartupCalls, 1, Len(mgr.log))
    /\ \A mac \in Macs :
           (task[mac].pc # "none" \/ CMKey(mac) \in DOMAIN data) =>
               (mgr.log = StartupCalls /\ handle # None
                /\ mgr.pc \in {"gather", "failed", "done"})
    /\ handle = None => \A mac \in Macs : task[mac].pc = "none"

\* the three calls are done and the task of an address has issued its connect
C18_TaskAfterStartup ==
    \E mac \in Macs :
        /\ mgr.log = StartupCalls
        /\ handle # None
        /\ task[mac].pc = "connecting"
        /\ CMKey(mac) \in DOMAIN data

\* the places of the calls of a kind in the log of a close
Places(calls, kinds) == {i \in DOMAIN calls : calls[i][1] \in kinds}

\* C19: close clears the flag first, closes every logical device of every
\* address before any disconnect, disconnects each managed address before
\* it removes it, unregisters the agent after all addresses, and releases
\* the handle last and only when startup had set it.
C19_CloseOrder ==
    LET calls == mgr.closed.calls
        devs == mgr.closed.devs
        n == Len(calls)
    IN  mgr.closed # NoClose =>
            /\ calls[1] = <<"clear_flag">>
            /\ \A m \in DOMAIN devs : \A d \in devs[m] :
                   \E i \in DOMAIN calls : calls[i] = <<"close", d>>
            /\ \A i \in Places(calls, {"close"}) :
                   \A j \in Places(calls, {"bt_disconnect", "bt_remove"}) : i < j
            /\ \A m \in DOMAIN devs :
                   \E i \in DOMAIN calls :
                       /\ calls[i] = <<"bt_disconnect", DevPath(m)>>
                       /\ i + 1 \in DOMAIN calls
                       /\ calls[i + 1] = <<"bt_remove", DevPath(m)>>
            /\ Cardinality(Places(calls, {"bt_disconnect"})) = Cardinality(DOMAIN devs)
            /\ Cardinality(Places(calls, {"bt_remove"})) = Cardinality(DOMAIN devs)
            /\ Cardinality(Places(calls, {"bt_unregister_agent"})) = 1
            /\ \A i \in Places(calls, {"bt_unregister_agent"}) :
                   \A j \in Places(calls, {"close", "bt_disconnect", "bt_remove"}) : j < i
            /\ (mgr.closed.handle # None) <=> (calls[n] = <<"cm_close", mgr.closed.handle>>)
            /\ Places(calls, {"cm_close"}) \subseteq {n}

\* a started manager with three devices of two addresses was closed
C19_ClosedTwoAddresses ==
    /\ mgr.closed # NoClose
    /\ mgr.closed.handle # None
    /\ Cardinality(DOMAIN mgr.closed.devs) = 2
    /\ Cardinality(Places(mgr.closed.calls, {"close"})) = 3
    /\ mgr.closed.calls[Len(mgr.closed.calls)] = <<"cm_close", mgr.closed.handle>>

\* C20: a stop of (path, interface) ends the delivery for every property
\* registered on the channel, whichever caller it was made for, and leaves
\* the channels of every other key as they were.
C20_StopEndsWholeChannel ==
    (ncall.op = "stop" /\ ncall.raised = None) =>
        /\ Registered(data, ncall.key) = {}
        /\ data[ncall.key].stopped
        /\ \A n \in Names :
               /\ MonSize(data[ncall.key], n) = 0
               /\ \A v \in BOOLEAN : Deliver(data, ncall.key, n, v) = data
        /\ ncall.others

\* a channel with two registered properties was stopped while another
\* channel still has its property
C20_StoppedWithTwoProperties ==
    /\ ncall.op = "stop"
    /\ ncall.raised = None
    /\ ncall.pre = Names
    /\ \E k \in NKeys \ {ncall.key} : Registered(data, k) # {}

\* the places of a native call in the steps of a connect call
StepPlaces(steps, what) == {i \in DOMAIN steps : steps[i] = what}

\* C21: a connect call that waits for the resolution has registered
\* ServicesResolved with the monitor before it read the current value.
C21_MonitorBeforeCheck ==
    \A c \in Calls :
        call[c].pc = "resolving" =>
            \E i \in StepPlaces(call[c].steps, "register") \cup
                      StepPlaces(call[c].steps, "bt_property_monitor_start") :
                \A j \in StepPlaces(call[c].steps, "bt_property_bool") : i < j

\* C22: the enable attempts of an address never number more than one plus
\* the notifications its task has taken.
C22_AttemptPerNotification == \A mac \in Macs : hist[mac].ahead <= 1

\* C23: no device has an enable() call started while enable() calls of an
\* earlier attempt on the devices of its address are still running.
C23_AttemptsDoNotOverlap ==
    \A d \in Devs, o \in Devs :
        (DevMac(d) = DevMac(o) /\ enab[o].stale) => enab[d].cur # "run"

\* a task whose bt_connect has ended is past the connect step
InLoop(mac) == task[mac].pc \in {"enabling", "waiting", "done"}

\* C24: a task whose connect ended with 'Already Exists' (or without error)
\* is in the enable/wait loop or has left it by the flag; a task whose
\* connect ended with another error has failed, has stopped its monitor
\* once, has made no enable attempt and is never resumed; the manager's
\* gather does not complete normally over a failed task; and the step in
\* which a task fails leaves the tasks, enable calls and monitors of the
\* other addresses as they were.
C24_ConnectFailure ==
    /\ [](\A mac \in Macs :
            /\ task[mac].conn \in {"ok", "Already Exists"} => InLoop(mac)
            /\ task[mac].conn = "error" =>
                   /\ task[mac].pc = "failed"
                   /\ task[mac].stops = 1
                   /\ data[CMKey(mac)].stopped
                   /\ hist[mac] = NoHist
                   /\ \A d \in Devs : DevMac(d) = mac => enab[d] = NoEnable
            /\ task[mac].pc = "failed" => task[mac].conn = "error" /\ mgr.pc # "done")
    /\ [][\A mac \in Macs :
            task[mac].pc = "failed" =>
                /\ task'[mac] = task[mac]
                /\ hist'[mac] = hist[mac]]_vars
    /\ [][\A mac \in Macs, o \in Macs :
            (mac # o /\ task[mac].pc # "failed" /\ task'[mac].pc = "failed") =>
                /\ task'[o] = task[o]
                /\ hist'[o] = hist[o]
                /\ \A d \in Devs : DevMac(d) = o => enab'[d] = enab[d]
                /\ CMKey(o) \in DOMAIN data => data'[CMKey(o)] = data[CMKey(o)]]_vars

\* one task has failed in its connect and the failure has come out of the
\* manager's gather, while the task of the other address, whose connection
\* already existed, went on to enable its device and waits for a change
C24_FailedBesideRunning ==
    \E mac \in Macs, o \in Macs :
        /\ mac # o
        /\ task[mac].conn = "error" /\ task[mac].stops = 1
        /\ mgr.pc = "failed"
        /\ task[o].conn = "Already Exists" /\ task[o].pc = "waiting"
        /\ task[o].resolved # <<>>
        /\ Ready(o)

\* C25: while the running flag is cleared no step starts an enable() call
\* on a device that had none running, and no task enters the enable step.
C25_NoAttemptAfterClose ==
    [][~process =>
          /\ \A d \in Devs : enab'[d].cur = "run" => enab[d].cur = "run"
          /\ \A mac \in Macs : task'[mac].pc = "enabling" => task[mac].pc = "enabling"]_vars

\* the flag was cleared while an attempt was in flight; the attempt ran
\* into its timeout, _enable did not retry, and the task then took a
\* notification and left the loop without another attempt
C25_TimedOutAfterClose ==
    \E mac \in Macs :
        /\ ~process
        /\ task[mac].pc = "done"
        /\ hist[mac].last = "timeout"
        /\ ~hist[mac].fresh
        /\ \A d \in Devs : enab[d].cur = "idle"

\* the task of the address waits for a notification that has not arrived
Suspended(mac) ==
    task[mac].pc = "waiting" /\ ~NotifGetReady(data, CMKey(mac), "ServicesResolved")

\* C26: with the flag cleared, a task that is in the enable/wait loop
\* ends with its monitor stopped (once), provided its enable calls end and
\* a notification reaches it; and a task that waits for a notification
\* which has not arrived stays where it is, whatever the flag says.
C26_TaskEndsAfterClose ==
    /\ \A mac \in Macs :
          (~process /\ task[mac].pc \in {"enabling", "waiting"})
              ~> (task[mac].pc = "done" /\ task[mac].stops = 1 /\ data[CMKey(mac)].stopped)
    /\ [][\A mac \in Macs : Suspended(mac) => task'[mac] = task[mac]]_vars

\* the flag is cleared and the task still waits: the notification has not come
C26_ClosedAndSuspended ==
    \E mac \in Macs : ~process /\ Suspended(mac) /\ mgr.closed # NoClose

\* what connect has put on the bus once its grant is written
ConnectWire == <<"notify tx_credit", "notify tx_uart", "grant">>

\* C27: connect subscribes to both notifications before its one grant, the
\* grant leaves the ledger at 32, and connect returns only in a step that
\* takes a credit notification of the peer off the queue.
C27_ConnectWaitsForCredit ==
    /\ [](ser.pc \in {"grant", "credit", "connected"} =>
              ser.wire = ConnectWire /\ ser.subs = {"tx_credit", "tx_uart"})
    /\ [](ser.pc = "grant" => ser.rx_credits = 0 /\ peer.issued = 0)
    /\ [](ser.pc = "credit" =>
              ser.rx_credits = INITIAL_CREDITS /\ peer.issued = INITIAL_CREDITS)
    /\ [][(ser.pc # "connected" /\ ser'.pc = "connected") =>
              /\ ser.pc = "credit"
              /\ ser.tx_credit # <<>>
              /\ ser'.tx_credit = Tail(ser.tx_credit)
              /\ ser'.rx_credits = INITIAL_CREDITS]_vars

\* connect has returned, and the peer had granted credit once
C27_ConnectedAfterCredit ==
    /\ ser.pc = "connected"
    /\ ser.rx_credits = INITIAL_CREDITS
    /\ ser.tx_credit = <<>>
    /\ peer.txLeft = 1
    /\ rd.pc = "idle" /\ wr.pc = "idle"

\* C28: when a connect call on the device has returned, the monitor somebody
\* started on the device's channel before the connect calls still has
\* ServicesResolved registered and is not stopped.
C28_EarlierMonitorDelivers ==
    (\E c \in Calls : call[c].pc = "returned") =>
        /\ SharedKey \in DOMAIN data
        /\ MonIsRegistered(data[SharedKey], "ServicesResolved")
        /\ ~data[SharedKey].stopped

\* C29: a caller suspended in connected(mac) waits on the Event that is the
\* readiness signal of mac, and the task of an address sets and clears the
\* Event that is the readiness signal of its address.
C29_AddKeepsSignals ==
    /\ client.pc = "waiting" => client.ev = connected[client.mac]
    /\ \A mac \in Macs : task[mac].ev # NoEvent => task[mac].ev = connected[mac]

====
